---- MODULE Spec2Model ----
(***************************************************************************)
(* Model of pkg/workloads/cortex/lib/api/predictor.py: the predictor       *)
(* contract tables, the signature validator (_validate_impl and helpers),  *)
(* class resolution (Predictor.class_impl) and instantiation               *)
(* (Predictor.initialize_impl).                                            *)
(*                                                                         *)
(* A user class is a record [name, attrs, init_raises]: its declared name, *)
(* one attribute per method name of interest and whether the body of its   *)
(* constructor raises.  An attribute is [k, args] with k one of            *)
(*   "absent"  the class body does not define the name,                    *)
(*   "falsy"   defined with a falsy value (None, 0, ""),                   *)
(*   "value"   defined with a truthy value that is not callable,           *)
(*   "fn"      a function whose formal parameters are args.                *)
(* An exception or a normal return is an outcome record                    *)
(*   [exc, msg, fn, arg, sig, wrapped].                                    *)
(***************************************************************************)
EXTENDS Integers, Sequences, FiniteSets, TLC

\* Longest models.paths list drawn for a specification.
MaxPaths == 1

\* Most classes a predictor's module holds.
MaxMembers == 2

VARIABLES tables, user_class, predictor, module, last

vars == <<tables, user_class, predictor, module, last>>

SeqToSet(s) == {s[i] : i \in 1..Len(s)}

----------------------------------------------------------------------------
\* Values of the user code

MethodNames == {"__init__", "predict", "load_model"}

Absent == [k |-> "absent", args |-> <<>>]

Falsy == [k |-> "falsy", args |-> <<>>]

NonCallable == [k |-> "value", args |-> <<>>]

Fn(args) == [k |-> "fn", args |-> args]

\* object.__init__, what getattr finds when the class defines no __init__;
\* inspect.getfullargspec gives it args ['self'] (and *args, **kwargs).
ObjectInit == Fn(<<"self">>)

\* getattr(impl, name, None): an undefined method name gives None, except
\* __init__, which every class inherits from object.
getattr(impl, name) ==
    LET a == impl.attrs[name]
    IN  IF a.k # "absent" THEN a
        ELSE IF name = "__init__" THEN ObjectInit ELSE Falsy

\* The truth value of an attribute ("if not fn").
Truthy(a) == a.k \in {"value", "fn"}

\* callable(fn)
callable(a) == a.k = "fn"

----------------------------------------------------------------------------
\* Outcomes

Returned == [exc |-> "none", msg |-> "ok", fn |-> "", arg |-> "", sig |-> <<>>, wrapped |-> FALSE]

Raise(exc, msg, fn, arg, sig) == [exc |-> exc, msg |-> msg, fn |-> fn, arg |-> arg, sig |-> sig, wrapped |-> FALSE]

\* Which exception classes derive from CortexException (cortex.lib.exceptions).
IsCortexException(out) == out.exc \in {"CortexException", "UserException", "UserRuntimeException"}

\* "except CortexException as e: e.wrap('error in ' + self.path); raise":
\* only a CortexException is caught and prefixed, anything else passes raw.
WrapIfCortex(out) == IF IsCortexException(out) THEN [out EXCEPT !.wrapped = TRUE] ELSE out

----------------------------------------------------------------------------
\* The API specification fields the conditions read

ApiSpecs == [model_path : {"None", "s3://model"}, dir : {"None", "s3://dir"}, paths : 0..MaxPaths]

\* _condition_specified_models(impl, api_spec)
condition_specified_models(impl, api_spec) ==
    \/ api_spec.model_path # "None"
    \/ api_spec.dir # "None"
    \/ api_spec.paths > 0

----------------------------------------------------------------------------
\* The contract tables.  A rule is [name, required_args, optional_args,
\* condition_args, condition]; a key the source leaves out is the empty
\* sequence (what .get(key, []) gives) or the condition "none".

Rule(name, req, opt, cargs, cond) == [name |-> name, required_args |-> req, optional_args |-> opt, condition_args |-> cargs, condition |-> cond]

PredictRule == Rule("predict", <<"self">>, <<"payload", "query_params", "headers">>, <<>>, "none")

PYTHON_CLASS_VALIDATION ==
    [optional |-> <<>>,
     required |-> << Rule("__init__", <<"self", "config">>, <<>>, <<"python_client">>, "none"),
                     PredictRule >>,
     conditional |-> << Rule("load_model", <<"self", "model_path">>, <<>>, <<>>, "specified_models") >>]

TENSORFLOW_CLASS_VALIDATION ==
    [optional |-> <<>>,
     required |-> << Rule("__init__", <<"self", "tensorflow_client", "config">>, <<>>, <<>>, "none"),
                     PredictRule >>,
     conditional |-> <<>>]

ONNX_CLASS_VALIDATION ==
    [optional |-> <<>>,
     required |-> << Rule("__init__", <<"self", "onnx_client", "config">>, <<>>, <<>>, "none"),
                     PredictRule >>,
     conditional |-> <<>>]

TableKeys == {"python", "tensorflow", "onnx"}

StaticTables == [python |-> PYTHON_CLASS_VALIDATION, tensorflow |-> TENSORFLOW_CLASS_VALIDATION, onnx |-> ONNX_CLASS_VALIDATION]

----------------------------------------------------------------------------
\* Name resolution inside _validate_required_fn_args

\* Names bound at module level of predictor.py.
module_globals ==
    {"os", "imp", "inspect", "dill", "Any", "Optional", "Union",
     "predictor_type_from_api_spec", "PythonPredictorType", "TensorFlowPredictorType",
     "TensorFlowNeuronPredictorType", "ONNXPredictorType", "refresh_logger", "cx_logger",
     "CortexException", "UserException", "UserRuntimeException", "consts", "logger",
     "Predictor", "_condition_specified_models", "PYTHON_CLASS_VALIDATION",
     "TENSORFLOW_CLASS_VALIDATION", "ONNX_CLASS_VALIDATION", "_validate_impl",
     "_validate_optional_fn_args", "_validate_required_fn_args"}

\* The parameter list as it would be with the specification handed down.
validate_required_fn_args_params_with_spec == {"impl", "func_signature", "api_spec"}

\* The parameter list of _validate_required_fn_args.
validate_required_fn_args_params == {"impl", "func_signature"}

\* Names bound in the frame of _validate_required_fn_args when the
\* conditional arguments are evaluated.
validate_required_fn_args_locals ==
    validate_required_fn_args_params \cup {"fn", "required_args", "optional_args", "arg_name"}

\* Whether evaluating the name succeeds there (else NameError).
NameBound(name) == name \in validate_required_fn_args_locals \cup module_globals

----------------------------------------------------------------------------
\* _validate_required_fn_args

\* First loop: for arg_name in required_args, from index i on.
RECURSIVE check_required(_, _, _, _)
check_required(name, args, required_args, i) ==
    IF i > Len(required_args) THEN Returned
    ELSE LET arg_name == required_args[i]
         IN  IF arg_name \notin SeqToSet(args)
                 THEN Raise("UserException", "required_arg_missing", name, arg_name, args)
             ELSE IF arg_name = "self" /\ args[1] # "self"
                 THEN Raise("UserException", "self_not_first", name, "self", args)
             ELSE check_required(name, args, required_args, i + 1)

\* Second loop: for arg_name in argspec.args, from index j on; seen_args is
\* the prefix before j.
RECURSIVE check_formals(_, _, _, _, _)
check_formals(name, args, required_args, optional_args, j) ==
    IF j > Len(args) THEN Returned
    ELSE LET arg_name == args[j]
         IN  IF arg_name \notin SeqToSet(required_args) /\ arg_name \notin SeqToSet(optional_args)
                 THEN Raise("UserException", "unsupported_arg", name, arg_name, args)
             ELSE IF arg_name \in {args[k] : k \in 1..(j - 1)}
                 THEN Raise("UserException", "duplicated_arg", name, arg_name, args)
             ELSE check_formals(name, args, required_args, optional_args, j + 1)

\* The condition_args loop, from index i on.  required_args is the rule's own
\* list (no copy is taken), so an append lands in the table.  frame_api_spec
\* is the specification of the calling _validate_impl frame: the value the
\* name api_spec has if the name is bound at all.
RECURSIVE condition_args_loop(_, _, _, _, _)
condition_args_loop(impl, func_signature, required_args, frame_api_spec, i) ==
    IF i > Len(func_signature.condition_args) THEN [out |-> Returned, required_args |-> required_args]
    ELSE IF ~NameBound("api_spec")
        THEN [out |-> Raise("NameError", "name_not_defined", func_signature.name, "api_spec", <<>>),
              required_args |-> required_args]
    ELSE condition_args_loop(impl, func_signature,
             IF condition_specified_models(impl, frame_api_spec)
                 THEN Append(required_args, func_signature.condition_args[i])
                 ELSE required_args,
             frame_api_spec, i + 1)

Unreached == <<"<unreached>">>

\* The two argument loops in order: the first exception raised.
FirstRaised(r1, r2) == IF r1.exc # "none" THEN r1 ELSE r2

\* The argument checks, with c the result of the condition_args loop.
check_args(func_signature, args, c) ==
    IF c.out.exc # "none"
        THEN [out |-> c.out, required_args |-> c.required_args, effective |-> Unreached]
        ELSE [out |-> FirstRaised(check_required(func_signature.name, args, c.required_args, 1),
                                  check_formals(func_signature.name, args, c.required_args,
                                                func_signature.optional_args, 1)),
              required_args |-> c.required_args,
              effective |-> c.required_args]

\* The function name could not be used: the rule's list stays as it is.
NotChecked(func_signature, out) ==
    [out |-> out, required_args |-> func_signature.required_args, effective |-> Unreached]

\* The function from the attribute fn on.
validate_fn(impl, func_signature, frame_api_spec, fn) ==
    IF ~Truthy(fn)
        THEN NotChecked(func_signature, Raise("UserException", "fn_not_defined", func_signature.name, "", <<>>))
    ELSE IF ~callable(fn)
        THEN NotChecked(func_signature, Raise("UserException", "not_a_function", func_signature.name, "", <<>>))
    ELSE check_args(func_signature, fn.args,
                    condition_args_loop(impl, func_signature, func_signature.required_args, frame_api_spec, 1))

\* The whole function: [out, required_args, effective] with required_args the
\* rule's list after the call and effective the local required_args the
\* argument checks ran with (Unreached when they did not run).
validate_required_fn_args(impl, func_signature, frame_api_spec) ==
    validate_fn(impl, func_signature, frame_api_spec, getattr(impl, func_signature.name))

\* _validate_optional_fn_args: the rule is checked only if the attribute is truthy.
validate_optional_fn_args(impl, func_signature, frame_api_spec) ==
    IF Truthy(getattr(impl, func_signature.name))
        THEN validate_required_fn_args(impl, func_signature, frame_api_spec)
        ELSE NotChecked(func_signature, Returned)

----------------------------------------------------------------------------
\* _validate_impl

Categories == <<"optional", "required", "conditional">>

\* Whether the rule of category cat is run at all.
RuleRuns(cat, rule, impl, api_spec) ==
    IF cat = "conditional"
        THEN rule.condition = "specified_models" /\ condition_specified_models(impl, api_spec)
        ELSE TRUE

\* One rule of category cat checked.
run_rule(cat, rule, impl, api_spec) ==
    IF cat = "optional"
        THEN validate_optional_fn_args(impl, rule, api_spec)
        ELSE validate_required_fn_args(impl, rule, api_spec)

\* The three loops of _validate_impl as one walk: category c, rule i of it.
\* Gives [out, table, init_effective]: the outcome, the table as the walk left
\* it and the effective required arguments the __init__ rule was checked with.
\* rule_done continues after rule i of category c gave r.
RECURSIVE run_rules(_, _, _, _, _, _)
RECURSIVE rule_done(_, _, _, _, _, _, _)
RECURSIVE rule_checked(_, _, _, _, _, _, _)
rule_done(table, impl, api_spec, c, i, init_effective, out) ==
    IF out.exc # "none"
        THEN [out |-> out, table |-> table, init_effective |-> init_effective]
        ELSE run_rules(table, impl, api_spec, c, i + 1, init_effective)

\* Rule i of category c gave r: its list is the table's, so the table holds
\* what the call left in it.
rule_checked(table, impl, api_spec, c, i, init_effective, r) ==
    rule_done([table EXCEPT ![Categories[c]][i].required_args = r.required_args], impl, api_spec, c, i,
              IF table[Categories[c]][i].name = "__init__" THEN r.effective ELSE init_effective,
              r.out)

run_rules(table, impl, api_spec, c, i, init_effective) ==
    IF c > Len(Categories) THEN [out |-> Returned, table |-> table, init_effective |-> init_effective]
    ELSE IF i > Len(table[Categories[c]]) THEN run_rules(table, impl, api_spec, c + 1, 1, init_effective)
    ELSE IF ~RuleRuns(Categories[c], table[Categories[c]][i], impl, api_spec)
        THEN run_rules(table, impl, api_spec, c, i + 1, init_effective)
    ELSE rule_checked(table, impl, api_spec, c, i, init_effective,
                      run_rule(Categories[c], table[Categories[c]][i], impl, api_spec))

validate_impl(impl, impl_req, api_spec) == run_rules(impl_req, impl, api_spec, 1, 1, Unreached)

----------------------------------------------------------------------------
\* Predictor

PredictorKinds == {"Plain", "TensorServing", "TensorServingNeuron", "OnnxRuntime"}

\* self.type as class_impl and initialize_impl compare it: the string the
\* kind's type stands for.
predictor_type_from_api_spec(kind) ==
    CASE kind = "Plain" -> "python"
      [] kind = "TensorServing" -> "tensorflow"
      [] kind = "TensorServingNeuron" -> "tensorflow"
      [] kind = "OnnxRuntime" -> "onnx"

\* The instance attributes Predictor.__init__ sets.
PredictorAttrs == {"provider", "type", "path", "config", "model_dir", "api_spec"}

\* The branch of class_impl on self.type: the table key and the target class
\* name; neither local is bound for another type.
TypeKnown(type) == type \in {"tensorflow", "onnx", "python"}

target_class_name(type) ==
    CASE type = "tensorflow" -> "TensorFlowPredictor"
      [] type = "onnx" -> "ONNXPredictor"
      [] type = "python" -> "PythonPredictor"
      [] OTHER -> "<unbound>"

validations_key(type) == IF TypeKnown(type) THEN type ELSE "python"

\* The implementation paths drawn: a source file and a pickled snapshot.
Paths == {"predictor.py", "predictor.pickle"}

IsPickle(path) == path = "predictor.pickle"

\* _load_module: any failure of the load leaves as a UserException.
load_module(path, loaded) ==
    IF loaded.ok THEN Returned
    ELSE IF IsPickle(path) THEN Raise("UserException", "unable_to_load_pickle", "", "", <<>>)
    ELSE Raise("UserException", "load_error", "", "", <<>>)

NoClass == [name |-> "<None>", attrs |-> [m \in MethodNames |-> Absent], init_raises |-> FALSE]

\* Order of names as inspect.getmembers sorts them (by attribute name).
NameRank(n) ==
    CASE n = "Alias" -> 0
      [] n = "ONNXPredictor" -> 1
      [] n = "PythonPredictor" -> 2
      [] n = "TensorFlowPredictor" -> 3
      [] OTHER -> 4

\* inspect.getmembers(impl, inspect.isclass): the (attribute name, class)
\* pairs of the module, sorted by attribute name.  A module is a set of
\* members [bound, cls] with pairwise distinct bound names.
RECURSIVE getmembers(_)
getmembers(members) ==
    IF members = {} THEN <<>>
    ELSE LET m == CHOOSE x \in members : \A y \in members : NameRank(x.bound) <= NameRank(y.bound)
         IN  <<m>> \o getmembers(members \ {m})

\* The loop of class_impl over classes, from index i on: class_df[0] is the
\* attribute name the class is bound under.
RECURSIVE resolve_loop(_, _, _, _)
resolve_loop(classes, target, i, predictor_class) ==
    IF i > Len(classes) THEN [out |-> Returned, predictor_class |-> predictor_class]
    ELSE IF classes[i].bound = target
        THEN IF predictor_class # NoClass
                 THEN [out |-> Raise("UserException", "multiple_definitions", "", target, <<>>),
                       predictor_class |-> predictor_class]
                 ELSE resolve_loop(classes, target, i + 1, classes[i].cls)
    ELSE resolve_loop(classes, target, i + 1, predictor_class)

\* class_impl stopped by an exception before validation.
Stopped(out, cls, table) ==
    [out |-> out, predictor_class |-> cls, table |-> table, init_effective |-> Unreached]

\* class_impl from the validation of predictor_class on, v its result.
validated(predictor_class, v) ==
    [out |-> WrapIfCortex(v.out), predictor_class |-> predictor_class,
     table |-> v.table, init_effective |-> v.init_effective]

\* class_impl after the loop over the classes gave r: the missing class, then
\* the arguments of the _validate_impl call (self._api_spec among them), then
\* the call.
resolved(type, api_spec, table, r) ==
    IF r.out.exc # "none" THEN Stopped(WrapIfCortex(r.out), r.predictor_class, table)
    ELSE IF r.predictor_class = NoClass
        THEN Stopped(WrapIfCortex(Raise("UserException", "class_not_defined", "",
                                        target_class_name(type), <<>>)), NoClass, table)
    ELSE IF "_api_spec" \notin PredictorAttrs
        THEN Stopped(WrapIfCortex(Raise("AttributeError", "no_attribute", "", "_api_spec", <<>>)),
                     r.predictor_class, table)
    ELSE validated(r.predictor_class, validate_impl(r.predictor_class, table, api_spec))

\* Predictor.class_impl: [out, predictor_class, table, init_effective], table
\* being the kind's contract table as the call left it.
class_impl(type, path, api_spec, loaded, table) ==
    IF ~loaded.ok THEN Stopped(WrapIfCortex(load_module(path, loaded)), NoClass, table)
    ELSE IF ~TypeKnown(type)
        THEN Stopped(Raise("UnboundLocalError", "unbound_local", "", "target_class_name", <<>>), NoClass, table)
    ELSE resolved(type, api_spec, table,
                  resolve_loop(getmembers(loaded.members), target_class_name(type), 1, NoClass))

\* The keyword arguments initialize_impl passes to the class.
constructor_kwargs(type) ==
    IF type = "onnx" THEN {"onnx_client", "config"}
    ELSE IF type = "tensorflow" THEN {"tensorflow_client", "config"}
    ELSE {"config"}

\* Calling the class with keyword arguments only: the instance is bound to the
\* first formal parameter of __init__, every other formal parameter needs its
\* keyword and every keyword its formal parameter; else TypeError.
CallBinds(cls, kwargs) ==
    LET init == cls.attrs["__init__"]
    IN  /\ init.k = "fn"
        /\ Len(init.args) >= 1
        /\ init.args[1] \notin kwargs
        /\ SeqToSet(Tail(init.args)) = kwargs
        /\ Cardinality(SeqToSet(init.args)) = Len(init.args)

\* The try block of initialize_impl, c being what class_impl gave.
construct(type, c) ==
    IF c.out.exc # "none"
        THEN [c EXCEPT !.out = c.out] @@ [called |-> FALSE, kwargs |-> {}, instantiated |-> FALSE]
    ELSE IF ~CallBinds(c.predictor_class, constructor_kwargs(type))
        THEN [c EXCEPT !.out = Raise("UserRuntimeException", "TypeError", "__init__", "", <<>>)]
             @@ [called |-> TRUE, kwargs |-> constructor_kwargs(type), instantiated |-> FALSE]
    ELSE IF c.predictor_class.init_raises
        THEN [c EXCEPT !.out = Raise("UserRuntimeException", "constructor_raised", "__init__", "", <<>>)]
             @@ [called |-> TRUE, kwargs |-> constructor_kwargs(type), instantiated |-> FALSE]
    ELSE c @@ [called |-> TRUE, kwargs |-> constructor_kwargs(type), instantiated |-> TRUE]

\* Predictor.initialize_impl: class_impl runs outside the try, the
\* construction inside it.
initialize_impl(type, path, api_spec, loaded, table) ==
    construct(type, class_impl(type, path, api_spec, loaded, table))

----------------------------------------------------------------------------
\* The user code drawn as input

\* __init__ as a class may define it.  (A def cannot repeat a parameter; a
\* callable carrying an unvalidated inspect.Signature can.)
InitAttrs ==
    {Absent, Falsy, NonCallable,
     Fn(<<"self", "config">>), Fn(<<"self">>), Fn(<<"config", "self">>), Fn(<<"foo", "self">>),
     Fn(<<"self", "config", "python_client">>), Fn(<<"self", "tensorflow_client", "config">>),
     Fn(<<"self", "onnx_client", "config">>)}

PredictAttrs ==
    {Absent, NonCallable,
     Fn(<<"self", "payload">>), Fn(<<"self">>), Fn(<<"payload", "self">>),
     Fn(<<"self", "payload", "foo">>), Fn(<<"self", "payload", "payload">>),
     Fn(<<"self", "payload", "payload", "foo">>), Fn(<<"self", "foo", "foo">>)}

LoadModelAttrs == {Absent, Fn(<<"self", "model_path">>), Fn(<<"self">>)}

AttrsOf(name) ==
    CASE name = "__init__" -> InitAttrs
      [] name = "predict" -> PredictAttrs
      [] name = "load_model" -> LoadModelAttrs

Class(name, init, predict, load_model, raises) ==
    [name |-> name,
     attrs |-> [m \in MethodNames |-> CASE m = "__init__" -> init
                                        [] m = "predict" -> predict
                                        [] m = "load_model" -> load_model],
     init_raises |-> raises]

\* A class with an empty body.
EmptyClass == Class("UserClass", Absent, Absent, Absent, FALSE)

\* The client keyword of a type's constructor contract.
ClientKeyword(type) ==
    CASE type = "tensorflow" -> "tensorflow_client"
      [] type = "onnx" -> "onnx_client"
      [] OTHER -> "python_client"

\* The class bodies of the modules written for a predictor of the type: one
\* taking the configuration only, the same with a raising constructor, one
\* taking the client too, one defining no constructor, one with a foreign
\* parameter in predict.
ModuleBodies(type, name) ==
    LET ok == Fn(<<"self", "payload">>)
        lm == Fn(<<"self", "model_path">>)
    IN  {Class(name, Fn(<<"self", "config">>), ok, Absent, FALSE),
         Class(name, Fn(<<"self", "config">>), ok, Absent, TRUE),
         Class(name, Fn(<<"self", ClientKeyword(type), "config">>), ok, lm, FALSE),
         Class(name, Absent, ok, Absent, FALSE),
         Class(name, Fn(<<"self", "config">>), Fn(<<"self", "payload", "foo">>), Absent, FALSE)}

\* The names a class of the module is bound under and declared with.
BoundNames(type) == {target_class_name(type), "Alias", "Zeta"}

DeclaredNames(type) == {target_class_name(type), "Alias"}

Members(type) ==
    UNION {{[bound |-> b, cls |-> c] : c \in ModuleBodies(type, d)} : <<b, d>> \in BoundNames(type) \X DeclaredNames(type)}

EmptyModule == [ok |-> TRUE, members |-> {}]

LoadFailure == [ok |-> FALSE, members |-> {}]

\* The module whose only class is cls, declared and bound under name.
SingleClassModule(cls, name) == [ok |-> TRUE, members |-> {[bound |-> name, cls |-> [cls EXCEPT !.name = name]]}]

----------------------------------------------------------------------------
\* State and actions

NoSpec == [model_path |-> "None", dir |-> "None", paths |-> 0]

NoPredictor == [kind |-> "", type |-> "", path |-> "", api_spec |-> NoSpec]

\* Predictor.__init__
NewPredictorObject(kind, path, api_spec) ==
    [kind |-> kind, type |-> predictor_type_from_api_spec(kind), path |-> path, api_spec |-> api_spec]

Predictors == {NewPredictorObject(k, p, a) : k \in PredictorKinds, p \in Paths, a \in ApiSpecs}

NoCall ==
    [op |-> "none", self |-> NoPredictor, key |-> "", api_spec |-> NoSpec,
     cls |-> NoClass, out |-> Returned, init_effective |-> Unreached, called |-> FALSE, kwargs |-> {},
     instantiated |-> FALSE, repeat |-> FALSE, first_out |-> Returned]

Init ==
    /\ tables = StaticTables
    /\ user_class = EmptyClass
    /\ predictor = NoPredictor
    /\ module = EmptyModule
    /\ last = NoCall

\* The class under validation gets one of its attributes (re)defined.
DefineMethod ==
    \E name \in MethodNames : \E a \in AttrsOf(name) :
        /\ a # user_class.attrs[name]
        /\ user_class' = [user_class EXCEPT !.attrs[name] = a]
        /\ last' = NoCall
        /\ UNCHANGED <<tables, predictor, module>>

\* The call _validate_impl(user_class, <table of key>, api_spec) gave r.
ValidateDone(key, api_spec, repeat, r) ==
    /\ tables' = [tables EXCEPT ![key] = r.table]
    /\ last' = [NoCall EXCEPT !.op = "validate_impl", !.key = key, !.api_spec = api_spec, !.cls = user_class,
                              !.out = r.out, !.init_effective = r.init_effective,
                              !.repeat = repeat, !.first_out = IF repeat THEN last.out ELSE Returned]
    /\ UNCHANGED <<user_class, predictor, module>>

ValidateCall(key, api_spec, repeat) ==
    ValidateDone(key, api_spec, repeat, validate_impl(user_class, tables[key], api_spec))

Validate == \E key \in TableKeys, api_spec \in ApiSpecs : ValidateCall(key, api_spec, FALSE)

\* The same class validated against the same table and specification again.
ValidateAgain ==
    /\ last.op = "validate_impl"
    /\ ValidateCall(last.key, last.api_spec, TRUE)

\* self.initialize_impl(project_dir, client) gave r.
InitializeDone(self, r) ==
    /\ tables' = [tables EXCEPT ![validations_key(self.type)] = r.table]
    /\ last' = [NoCall EXCEPT !.op = "initialize_impl", !.self = self, !.key = validations_key(self.type),
                              !.api_spec = self.api_spec, !.cls = r.predictor_class, !.out = r.out,
                              !.init_effective = r.init_effective, !.called = r.called,
                              !.kwargs = r.kwargs, !.instantiated = r.instantiated]

\* self.initialize_impl(project_dir, client) with the file of self loading as
\* `loaded`.
InitializeCall(self, loaded) ==
    InitializeDone(self, initialize_impl(self.type, self.path, self.api_spec, loaded,
                                         tables[validations_key(self.type)]))

\* A predictor is built over a source file holding the class under validation
\* under the kind's class name, and initialized.
InitializeImpl ==
    \E self \in Predictors :
        /\ ~IsPickle(self.path)
        /\ InitializeCall(self, SingleClassModule(user_class, target_class_name(self.type)))
        /\ UNCHANGED <<user_class, predictor, module>>

Next == DefineMethod \/ Validate \/ ValidateAgain \/ InitializeImpl

Spec == Init /\ [][Next]_vars

----------------------------------------------------------------------------
\* Predictors over modules of several classes

\* Predictor(provider, model_dir, api_spec), over a file still empty.
NewPredictor ==
    \E self \in Predictors :
        /\ predictor' = self
        /\ module' = EmptyModule
        /\ last' = NoCall
        /\ UNCHANGED <<tables, user_class>>

\* The predictor's file gets one more class, under a name not yet bound.
DefineClass ==
    /\ predictor # NoPredictor
    /\ module.ok
    /\ Cardinality(module.members) < MaxMembers
    /\ \E m \in Members(predictor.type) :
        /\ \A x \in module.members : x.bound # m.bound
        /\ module' = [module EXCEPT !.members = @ \cup {m}]
    /\ last' = NoCall
    /\ UNCHANGED <<tables, user_class, predictor>>

\* The predictor's file stops loading (syntax error, corrupt pickle).
BreakFile ==
    /\ predictor # NoPredictor
    /\ module.ok
    /\ module' = LoadFailure
    /\ last' = NoCall
    /\ UNCHANGED <<tables, user_class, predictor>>

\* predictor.initialize_impl(project_dir, client)
InitializePredictor ==
    /\ predictor # NoPredictor
    /\ InitializeCall(predictor, module)
    /\ UNCHANGED <<user_class, predictor, module>>

NextModules == NewPredictor \/ DefineClass \/ BreakFile \/ InitializePredictor

SpecModules == Init /\ [][NextModules]_vars

----------------------------------------------------------------------------
\* The contract as the specification states it

\* "any of model_path / models.dir / models.paths is set"
ModelsConfigured(api_spec) ==
    api_spec.model_path # "None" \/ api_spec.dir # "None" \/ api_spec.paths > 0

\* The effective required arguments of __init__ per kind, in table order.
ContractInit(key, api_spec) ==
    CASE key = "python" -> IF ModelsConfigured(api_spec) THEN <<"self", "config", "python_client">>
                           ELSE <<"self", "config">>
      [] key = "tensorflow" -> <<"self", "tensorflow_client", "config">>
      [] key = "onnx" -> <<"self", "onnx_client", "config">>

ContractPredictOptional == {"payload", "query_params", "headers"}

NoRepeat(args) == Cardinality(SeqToSet(args)) = Len(args)

\* A method meeting its rule: callable, the receiver first, every required
\* argument present, no other argument but the optional ones, none repeated.
MethodConforms(a, required, optional) ==
    /\ a.k = "fn"
    /\ Len(a.args) >= 1
    /\ a.args[1] = "self"
    /\ SeqToSet(required) \subseteq SeqToSet(a.args)
    /\ SeqToSet(a.args) \subseteq SeqToSet(required) \cup optional
    /\ NoRepeat(a.args)

InitConforms(cls, key, api_spec) == MethodConforms(cls.attrs["__init__"], ContractInit(key, api_spec), {})

PredictConforms(cls) == MethodConforms(cls.attrs["predict"], <<"self">>, ContractPredictOptional)

LoadModelConforms(cls, key, api_spec) ==
    (key = "python" /\ ModelsConfigured(api_spec))
        => MethodConforms(cls.attrs["load_model"], <<"self", "model_path">>, {})

ClassConforms(cls, key, api_spec) ==
    InitConforms(cls, key, api_spec) /\ PredictConforms(cls) /\ LoadModelConforms(cls, key, api_spec)

\* The classes of the module declared with the name, and those bound under it.
DeclaredAs(name) == {m \in module.members : m.cls.name = name}

BoundAs(name) == {m \in module.members : m.bound = name}

\* The last call initialized a predictor whose file loaded and holds one
\* class of the kind's name, declared and bound under it.
InitializedOverOneTarget ==
    /\ last.op = "initialize_impl"
    /\ module.ok
    /\ Cardinality(DeclaredAs(target_class_name(last.self.type))) = 1
    /\ DeclaredAs(target_class_name(last.self.type)) = BoundAs(target_class_name(last.self.type))

TheTarget == (CHOOSE m \in DeclaredAs(target_class_name(last.self.type)) : TRUE).cls

Says(out, exc, msg, fn, arg) == out.exc = exc /\ out.msg = msg /\ out.fn = fn /\ out.arg = arg

----------------------------------------------------------------------------
\* Claims

\* C1: for each of the four kinds, initialize_impl over a module whose target
\* class defines no __init__ ends in a UserException saying the required
\* function __init__ is not defined, and the class is not instantiated.
C1_MissingConstructorNotDefined ==
    (InitializedOverOneTarget /\ TheTarget.attrs["__init__"] = Absent)
        => /\ Says(last.out, "UserException", "fn_not_defined", "__init__", "")
           /\ ~last.called

\* C2: a Plain predictor whose specification configures no models and whose
\* module defines one class PythonPredictor with __init__(self, config) and
\* predict(self, payload) is instantiated by initialize_impl when the
\* constructor does not raise.
C2_PlainScenarioInstantiated ==
    ( /\ InitializedOverOneTarget
      /\ last.self.kind = "Plain"
      /\ ~ModelsConfigured(last.self.api_spec)
      /\ TheTarget = Class("PythonPredictor", Fn(<<"self", "config">>), Fn(<<"self", "payload">>), Absent, FALSE) )
        => /\ last.out.exc = "none"
           /\ last.instantiated

\* C3: in every validation of a class against the Plain table, whatever ran
\* before, the effective required arguments of __init__ are self and config,
\* plus python_client exactly when the specification of this validation
\* configures models; __init__(self, config) without models is never
\* rejected for a missing python_client.
C3_PlainEffectiveRequired ==
    (last.op = "validate_impl" /\ last.key = "python" /\ callable(getattr(last.cls, "__init__")))
        => /\ SeqToSet(last.init_effective) = SeqToSet(ContractInit("python", last.api_spec))
           /\ (last.cls.attrs["__init__"] = Fn(<<"self", "config">>) /\ ~ModelsConfigured(last.api_spec))
                  => ~(last.out.msg = "required_arg_missing" /\ last.out.arg = "python_client")

\* The first formal parameter of predict outside self and the optional ones.
RECURSIVE FirstForeign(_, _)
FirstForeign(args, j) ==
    IF j > Len(args) THEN 0
    ELSE IF args[j] \notin {"self"} \cup ContractPredictOptional THEN j
    ELSE FirstForeign(args, j + 1)

\* C4: for every kind, validating a class whose predict has a formal
\* parameter outside self, payload, query_params, headers, and nothing wrong
\* before it, raises a UserException saying that parameter is not a
\* supported argument.
C4_ForeignPredictParameterRejected ==
    LET p == last.cls.attrs["predict"]
        j == FirstForeign(p.args, 1)
    IN  ( /\ last.op = "validate_impl"
          /\ InitConforms(last.cls, last.key, last.api_spec)
          /\ p.k = "fn"
          /\ j > 1
          /\ p.args[1] = "self"
          /\ NoRepeat(SubSeq(p.args, 1, j)) )
            => Says(last.out, "UserException", "unsupported_arg", "predict", p.args[j])

\* C5: against the Plain table, an otherwise conforming class without
\* load_model is accepted when no models are configured and rejected with
\* "required function load_model is not defined" when models.dir is set;
\* validating the same class against the same specification again gives the
\* same outcome.
C5_LoadModelConditional ==
    /\ ( /\ last.op = "validate_impl" /\ last.key = "python"
         /\ InitConforms(last.cls, "python", last.api_spec) /\ PredictConforms(last.cls)
         /\ last.cls.attrs["load_model"] = Absent )
           => IF ModelsConfigured(last.api_spec)
                  THEN last.api_spec.dir # "None"
                           => Says(last.out, "UserException", "fn_not_defined", "load_model", "")
                  ELSE last.out.exc = "none"
    /\ (last.op = "validate_impl" /\ last.repeat) => last.out = last.first_out

\* C6: class resolution goes by the declared name: no class of the module
\* declared with the target name gives "<name> class is not defined", more
\* than one gives "multiple definitions", exactly one is the class resolved.
C6_ResolutionByDeclaredName ==
    (last.op = "initialize_impl" /\ module.ok)
        => LET declared == DeclaredAs(target_class_name(last.self.type))
           IN  /\ declared = {} => (last.out.exc = "UserException" /\ last.out.msg = "class_not_defined")
               /\ Cardinality(declared) > 1
                      => (last.out.exc = "UserException" /\ last.out.msg = "multiple_definitions")
               /\ Cardinality(declared) = 1
                      => /\ last.cls \in {m.cls : m \in declared}
                         /\ last.out.msg \notin {"class_not_defined", "multiple_definitions"}

\* The violations of one method in the order of the validator's steps: not
\* defined, not callable, the first required argument missing, the receiver
\* not first, the first unsupported argument, the first repeated argument.
Verdict(exc, msg, fn, arg) == [exc |-> exc, msg |-> msg, fn |-> fn, arg |-> arg]

Accepted == Verdict("none", "ok", "", "")

RECURSIVE FirstMissing(_, _, _)
FirstMissing(required, args, i) ==
    IF i > Len(required) THEN 0
    ELSE IF required[i] \notin SeqToSet(args) THEN i
    ELSE FirstMissing(required, args, i + 1)

RECURSIVE FirstUnsupported(_, _, _)
FirstUnsupported(args, allowed, j) ==
    IF j > Len(args) THEN 0
    ELSE IF args[j] \notin allowed THEN j
    ELSE FirstUnsupported(args, allowed, j + 1)

RECURSIVE FirstRepeated(_, _)
FirstRepeated(args, j) ==
    IF j > Len(args) THEN 0
    ELSE IF args[j] \in {args[k] : k \in 1..(j - 1)} THEN j
    ELSE FirstRepeated(args, j + 1)

MethodVerdict(a, name, required, optional) ==
    IF ~Truthy(a) THEN Verdict("UserException", "fn_not_defined", name, "")
    ELSE IF ~callable(a) THEN Verdict("UserException", "not_a_function", name, "")
    ELSE IF FirstMissing(required, a.args, 1) # 0
        THEN Verdict("UserException", "required_arg_missing", name, required[FirstMissing(required, a.args, 1)])
    ELSE IF "self" \in SeqToSet(required) /\ a.args[1] # "self"
        THEN Verdict("UserException", "self_not_first", name, "self")
    ELSE IF FirstUnsupported(a.args, SeqToSet(required) \cup optional, 1) # 0
        THEN Verdict("UserException", "unsupported_arg", name,
                     a.args[FirstUnsupported(a.args, SeqToSet(required) \cup optional, 1)])
    ELSE IF FirstRepeated(a.args, 1) # 0
        THEN Verdict("UserException", "duplicated_arg", name, a.args[FirstRepeated(a.args, 1)])
    ELSE Accepted

FirstVerdict(v1, v2) == IF v1.exc # "none" THEN v1 ELSE v2

\* The rules in the order required, then triggered conditional (no table has
\* an optional rule).
ClassVerdict(cls, key, api_spec) ==
    FirstVerdict(MethodVerdict(getattr(cls, "__init__"), "__init__", ContractInit(key, api_spec), {}),
        FirstVerdict(MethodVerdict(getattr(cls, "predict"), "predict", <<"self">>, ContractPredictOptional),
            IF key = "python" /\ ModelsConfigured(api_spec)
                THEN MethodVerdict(getattr(cls, "load_model"), "load_model", <<"self", "model_path">>, {})
                ELSE Accepted))

VerdictOf(out) == Verdict(out.exc, out.msg, out.fn, out.arg)

\* C7: validation is fail-fast in the stated order: the one error raised is
\* that of the first violation, rules taken optional, required, triggered
\* conditional and the checks of one method in the order of steps 1 to 7.
C7_FailFastInStatedOrder ==
    last.op = "validate_impl" => VerdictOf(last.out) = ClassVerdict(last.cls, last.key, last.api_spec)

\* C8: every failure leaving initialize_impl is a platform error: a load,
\* class-resolution or validation failure a CortexException prefixed with
\* "error in <path>", a failure of the constructor a UserRuntimeException
\* naming the path and __init__.
C8_FailuresAreWrapped ==
    (last.op = "initialize_impl" /\ last.out.exc # "none")
        => \/ last.out.exc \in {"CortexException", "UserException"} /\ last.out.wrapped
           \/ last.out.exc = "UserRuntimeException" /\ last.out.fn = "__init__"

\* C9: a class that passes validation is constructed by initialize_impl with
\* exactly the effective required arguments of the kind's __init__ rule other
\* than the receiver as keywords.
C9_ConstructedWithRequiredKeywords ==
    (InitializedOverOneTarget /\ ClassConforms(TheTarget, last.key, last.self.api_spec))
        => /\ last.called
           /\ last.kwargs = SeqToSet(ContractInit(last.key, last.self.api_spec)) \ {"self"}

\* C10: after any sequence of validations and initializations every rule of
\* the three contract tables is as statically defined.
C10_TablesUnchanged == tables = StaticTables

\* C10 witness: the Plain table is as defined after a class with a callable
\* __init__ was validated twice against a specification with models, the
\* calls ending where the conditional argument is evaluated.
C10_Witness ==
    /\ last.op = "validate_impl"
    /\ last.repeat
    /\ last.key = "python"
    /\ ModelsConfigured(last.api_spec)
    /\ last.cls.attrs["__init__"] = Fn(<<"self", "config", "python_client">>)
    /\ last.out.exc = "NameError"
    /\ tables = StaticTables

====
